---- MODULE Spec2Model ----
\* Selection state machine of the screenshot overlay (src/src/main.rs):
\* AppState, ScreenshotWidget::event and the effects it requests from the
\* host (repaint, context menu, quit).  Coordinates are whole pixels.
EXTENDS Integers, Sequences, FiniteSets, TLC

\* ---------------------------------------------------------------- bounds
\* Largest screenshot width and height, and how far left of the image the
\* one out-of-image pointer column lies (a captured pointer leaves the window).
MaxW == 2
MaxH == 2
OutMargin == 1

\* Pointer coordinates are sampled at the image edges, at distance 1 from the
\* origin (the size threshold) and at one column left of the image.
Xs == {0 - OutMargin, 0, 1, MaxW}
Ys == {0, 1, MaxH}
Points == [x : Xs, y : Ys]

\* ---------------------------------------------------------------- geometry
\* Option<T>: None is the empty sequence, Some(v) the one-element sequence.
None == <<>>
Some(v) == <<v>>

Min(a, b) == IF a <= b THEN a ELSE b
Max(a, b) == IF a >= b THEN a ELSE b

\* druid::Point::ZERO
PointZero == [x |-> 0, y |-> 0]

\* druid::Rect::from_points: the corners are kept in the order given.
RectFromPoints(p0, p1) == [x0 |-> p0.x, y0 |-> p0.y, x1 |-> p1.x, y1 |-> p1.y]

\* druid::Rect::abs: reorder the corners so that width and height are >= 0.
RectAbs(r) ==
    [x0 |-> Min(r.x0, r.x1), y0 |-> Min(r.y0, r.y1),
     x1 |-> Max(r.x0, r.x1), y1 |-> Max(r.y0, r.y1)]

\* druid::Rect::width / height (signed).
Width(r) == r.x1 - r.x0
Height(r) == r.y1 - r.y0

\* druid::Rect::union: smallest rectangle enclosing both.
RectUnion(a, b) ==
    [x0 |-> Min(a.x0, b.x0), y0 |-> Min(a.y0, b.y0),
     x1 |-> Max(a.x1, b.x1), y1 |-> Max(a.y1, b.y1)]

\* druid::Rect::inset(d): normalises the rectangle and moves every edge
\* outward by d; a negative d moves every edge inward.
RectInset(r, d) ==
    LET n == RectAbs(r)
    IN  [x0 |-> n.x0 - d, y0 |-> n.y0 - d, x1 |-> n.x1 + d, y1 |-> n.y1 + d]

\* The argument of inset() in the MouseMove handler.
DirtyInset == 0 - 2

\* Variant of get_current_selection without abs().
get_current_selection_raw(start, current) == RectFromPoints(start, current)

\* AppState::get_current_selection
get_current_selection(start, current) == RectAbs(RectFromPoints(start, current))

\* The size test of the MouseUp handler.
IsValidSelection_ge0(r) == Width(r) >= 0 /\ Height(r) >= 0
IsValidSelection_ge(r) == Width(r) >= 1 /\ Height(r) >= 1
IsValidSelection(r) == Width(r) > 1 /\ Height(r) > 1

\* ctx.size().to_rect(): the widget is laid out at the screenshot's size.
screen_rect(shot) == [x0 |-> 0, y0 |-> 0, x1 |-> shot.w, y1 |-> shot.h]

\* ---------------------------------------------------------------- state
VARIABLES
    screenshot,      \* dimensions of AppState.screenshot
    is_selecting,    \* AppState.is_selecting
    start_pos,       \* AppState.start_pos
    current_pos,     \* AppState.current_pos
    selection_rect,  \* AppState.selection_rect : Option<Rect>
    previous_rect,   \* ScreenshotWidget.previous_rect : Option<Rect>
    event,           \* the event handled last: [kind, pos]
    paint_req,       \* repaint requested by the last handler
    menu_at,         \* Option<Point>: context menu shown by the last handler
    quit_app,        \* QUIT_APP has been submitted
    discarded,       \* the last left press cleared a committed rectangle
    drawn,           \* what paint() drew since the last handler ran
    dialog,          \* Option: MessageDialog shown by the last handler
    ext_failed,      \* an external call of the last handler returned an error
    call,            \* last direct application of a pure function
    sel_start,       \* selection.rs Selection.start : Option<(usize, usize)>
    sel_end,         \* selection.rs Selection.end : Option<(usize, usize)>
    sel_made,        \* selection.rs Selection.made : Option<Rect>
    polled           \* what the window reported in the last polled frame

vars == <<screenshot, is_selecting, start_pos, current_pos, selection_rect,
          previous_rect, event, paint_req, menu_at, quit_app, discarded,
          drawn, dialog, ext_failed, call,
          sel_start, sel_end, sel_made, polled>>

\* The frame-polled Selection of selection.rs, which the druid widget does
\* not use.
poll_vars == <<sel_start, sel_end, sel_made, polled>>

NoPaint == [all |-> FALSE, rect |-> None]
PaintAll == [all |-> TRUE, rect |-> None]
PaintRect(r) == [all |-> FALSE, rect |-> Some(r)]

Ev(k, p) == [kind |-> k, pos |-> p]

\* Nothing painted yet: the overlay part of paint() has not run.
NoDraw == [painted |-> FALSE, hint |-> None, masks |-> <<>>, border |-> None]

NoCall == [fn |-> "none"]

\* Every arm of ScreenshotWidget::event: the screen is not repainted inside
\* the handler, no dialog is opened and no external collaborator is called.
NoHostCall ==
    /\ drawn' = NoDraw
    /\ dialog' = None
    /\ ext_failed' = FALSE
    /\ UNCHANGED <<call, poll_vars>>

Init ==
    /\ screenshot \in [w : {1, MaxW}, h : {MaxH}]
    /\ is_selecting = FALSE
    /\ start_pos = PointZero
    /\ current_pos = PointZero
    /\ selection_rect = None
    /\ previous_rect = None
    /\ event = Ev("launch", PointZero)
    /\ paint_req = NoPaint
    /\ menu_at = None
    /\ quit_app = FALSE
    /\ discarded = FALSE
    /\ drawn = NoDraw
    /\ dialog = None
    /\ ext_failed = FALSE
    /\ call = NoCall
    /\ sel_start = None
    /\ sel_end = None
    /\ sel_made = None
    /\ polled = [down |-> FALSE, pos |-> None]

\* ---------------------------------------------------------------- handlers
\* Variant of MouseDownLeft that keeps the committed rectangle.
MouseDownLeft_keep(p) ==
    /\ ~quit_app
    /\ NoHostCall
    /\ is_selecting' = TRUE
    /\ start_pos' = p
    /\ current_pos' = p
    /\ previous_rect' = Some(get_current_selection(p, p))
    /\ paint_req' = PaintAll
    /\ menu_at' = None
    /\ event' = Ev("down_left", p)
    /\ discarded' = (selection_rect # None)
    /\ UNCHANGED <<screenshot, quit_app, selection_rect>>

\* Variant of MouseDownLeft that does not refresh the cached rectangle.
MouseDownLeft_stale(p) ==
    /\ ~quit_app
    /\ NoHostCall
    /\ is_selecting' = TRUE
    /\ start_pos' = p
    /\ current_pos' = p
    /\ selection_rect' = None
    /\ paint_req' = PaintAll
    /\ menu_at' = None
    /\ event' = Ev("down_left", p)
    /\ discarded' = (selection_rect # None)
    /\ UNCHANGED <<screenshot, quit_app, previous_rect>>

\* Event::MouseDown, left button
MouseDownLeft(p) ==
    /\ ~quit_app
    /\ NoHostCall
    /\ is_selecting' = TRUE
    /\ start_pos' = p
    /\ current_pos' = p
    /\ selection_rect' = None
    /\ previous_rect' = Some(get_current_selection(p, p))
    /\ paint_req' = PaintAll
    /\ menu_at' = None
    /\ event' = Ev("down_left", p)
    /\ discarded' = (selection_rect # None)
    /\ UNCHANGED <<screenshot, quit_app>>

\* The dirty region of one MouseMove.
dirty_region(old_rect, new_rect) == RectInset(RectUnion(old_rect, new_rect), DirtyInset)

\* Variant of MouseMove that skips the whole update when the new rectangle
\* adds nothing to the cached one.
MouseMove_skip(p) ==
    /\ ~quit_app
    /\ NoHostCall
    /\ event' = Ev("move", p)
    /\ menu_at' = None
    /\ IF is_selecting
       THEN LET old_rect == IF previous_rect # None
                            THEN previous_rect[1]
                            ELSE get_current_selection(start_pos, current_pos)
                new_rect == get_current_selection(start_pos, p)
            IN  IF RectUnion(old_rect, new_rect) = old_rect
                THEN /\ paint_req' = NoPaint
                     /\ UNCHANGED <<current_pos, previous_rect>>
                ELSE /\ current_pos' = p
                     /\ previous_rect' = Some(new_rect)
                     /\ paint_req' = PaintRect(dirty_region(old_rect, new_rect))
       ELSE /\ paint_req' = NoPaint
            /\ UNCHANGED <<current_pos, previous_rect>>
    /\ UNCHANGED <<screenshot, is_selecting, start_pos, selection_rect,
                   quit_app, discarded>>

\* Event::MouseMove; without a drag in progress it falls to the `_ => {}` arm.
MouseMove(p) ==
    /\ ~quit_app
    /\ NoHostCall
    /\ event' = Ev("move", p)
    /\ menu_at' = None
    /\ IF is_selecting
       THEN LET old_rect == IF previous_rect # None
                            THEN previous_rect[1]
                            ELSE get_current_selection(start_pos, current_pos)
                new_rect == get_current_selection(start_pos, p)
            IN  /\ current_pos' = p
                /\ previous_rect' = Some(new_rect)
                /\ paint_req' = PaintRect(dirty_region(old_rect, new_rect))
       ELSE /\ paint_req' = NoPaint
            /\ UNCHANGED <<current_pos, previous_rect>>
    /\ UNCHANGED <<screenshot, is_selecting, start_pos, selection_rect,
                   quit_app, discarded>>

\* Variant of MouseUpLeft that leaves selection_rect alone on a small drag.
MouseUpLeft_keep(p) ==
    /\ ~quit_app
    /\ NoHostCall
    /\ event' = Ev("up_left", p)
    /\ IF is_selecting
       THEN LET selection == get_current_selection(start_pos, current_pos)
            IN  /\ is_selecting' = FALSE
                /\ IF IsValidSelection(selection)
                   THEN /\ selection_rect' = Some(selection)
                        /\ menu_at' = Some(p)
                   ELSE /\ UNCHANGED selection_rect
                        /\ menu_at' = None
                /\ paint_req' = PaintAll
       ELSE /\ paint_req' = NoPaint
            /\ menu_at' = None
            /\ UNCHANGED <<is_selecting, selection_rect>>
    /\ UNCHANGED <<screenshot, start_pos, current_pos, previous_rect,
                   quit_app, discarded>>

\* Variant of MouseUpLeft that shows the menu after every release.
MouseUpLeft_menu(p) ==
    /\ ~quit_app
    /\ NoHostCall
    /\ event' = Ev("up_left", p)
    /\ IF is_selecting
       THEN LET selection == get_current_selection(start_pos, current_pos)
            IN  /\ is_selecting' = FALSE
                /\ IF IsValidSelection(selection)
                   THEN selection_rect' = Some(selection)
                   ELSE selection_rect' = None
                /\ menu_at' = Some(p)
                /\ paint_req' = PaintAll
       ELSE /\ paint_req' = NoPaint
            /\ menu_at' = None
            /\ UNCHANGED <<is_selecting, selection_rect>>
    /\ UNCHANGED <<screenshot, start_pos, current_pos, previous_rect,
                   quit_app, discarded>>

\* Variant of MouseUpLeft without the is_selecting test.
MouseUpLeft_always(p) ==
    /\ ~quit_app
    /\ NoHostCall
    /\ event' = Ev("up_left", p)
    /\ LET selection == get_current_selection(start_pos, current_pos)
       IN  /\ is_selecting' = FALSE
           /\ IF IsValidSelection(selection)
              THEN /\ selection_rect' = Some(selection)
                   /\ menu_at' = Some(p)
              ELSE /\ selection_rect' = None
                   /\ menu_at' = None
           /\ paint_req' = PaintAll
    /\ UNCHANGED <<screenshot, start_pos, current_pos, previous_rect,
                   quit_app, discarded>>

\* Event::MouseUp, left button
MouseUpLeft(p) ==
    /\ ~quit_app
    /\ NoHostCall
    /\ event' = Ev("up_left", p)
    /\ IF is_selecting
       THEN LET selection == get_current_selection(start_pos, current_pos)
            IN  /\ is_selecting' = FALSE
                /\ IF IsValidSelection(selection)
                   THEN /\ selection_rect' = Some(selection)
                        /\ menu_at' = Some(p)
                   ELSE /\ selection_rect' = None
                        /\ menu_at' = None
                /\ paint_req' = PaintAll
       ELSE /\ paint_req' = NoPaint
            /\ menu_at' = None
            /\ UNCHANGED <<is_selecting, selection_rect>>
    /\ UNCHANGED <<screenshot, start_pos, current_pos, previous_rect,
                   quit_app, discarded>>

\* Variant of MouseDownRight that validates the screen rectangle like a drag.
MouseDownRight_valid(p) ==
    /\ ~quit_app
    /\ NoHostCall
    /\ event' = Ev("down_right", p)
    /\ IF selection_rect = None /\ IsValidSelection(screen_rect(screenshot))
       THEN /\ selection_rect' = Some(screen_rect(screenshot))
            /\ paint_req' = PaintAll
       ELSE /\ paint_req' = NoPaint
            /\ UNCHANGED selection_rect
    /\ menu_at' = Some(p)
    /\ UNCHANGED <<screenshot, is_selecting, start_pos, current_pos,
                   previous_rect, quit_app, discarded>>

\* Event::MouseDown, right button
MouseDownRight(p) ==
    /\ ~quit_app
    /\ NoHostCall
    /\ event' = Ev("down_right", p)
    /\ IF selection_rect = None
       THEN /\ selection_rect' = Some(screen_rect(screenshot))
            /\ paint_req' = PaintAll
       ELSE /\ paint_req' = NoPaint
            /\ UNCHANGED selection_rect
    /\ menu_at' = Some(p)
    /\ UNCHANGED <<screenshot, is_selecting, start_pos, current_pos,
                   previous_rect, quit_app, discarded>>

\* Variant of KeyDownEscape that also abandons the selection.
KeyDownEscape_reset ==
    /\ ~quit_app
    /\ NoHostCall
    /\ event' = Ev("escape", PointZero)
    /\ quit_app' = TRUE
    /\ paint_req' = NoPaint
    /\ menu_at' = None
    /\ is_selecting' = FALSE
    /\ selection_rect' = None
    /\ UNCHANGED <<screenshot, start_pos, current_pos, previous_rect, discarded>>

\* Event::KeyDown, Escape
KeyDownEscape ==
    /\ ~quit_app
    /\ NoHostCall
    /\ event' = Ev("escape", PointZero)
    /\ quit_app' = TRUE
    /\ paint_req' = NoPaint
    /\ menu_at' = None
    /\ UNCHANGED <<screenshot, is_selecting, start_pos, current_pos,
                   selection_rect, previous_rect, discarded>>

\* ---------------------------------------------------------------- paint
\* druid::Rect::new: the corners are kept as given.
RectNew(x0, y0, x1, y1) == [x0 |-> x0, y0 |-> y0, x1 |-> x1, y1 |-> y1]

\* Variant of selection_to_draw that prefers the live drag rectangle.
selection_to_draw_live(sel, selecting, start, current) ==
    IF selecting THEN Some(get_current_selection(start, current)) ELSE sel

\* paint(): selection_rect, or else the live drag rectangle, or else None.
selection_to_draw(sel, selecting, start, current) ==
    IF sel # None THEN sel
    ELSE IF selecting THEN Some(get_current_selection(start, current))
    ELSE None

\* Variant of mask_rects whose left and right bands span the whole frame.
mask_rects_full(r, full_rect) ==
    << RectNew(0, 0, Width(full_rect), r.y0),
       RectNew(0, r.y1, Width(full_rect), Height(full_rect)),
       RectNew(0, 0, r.x0, Height(full_rect)),
       RectNew(r.x1, 0, Width(full_rect), Height(full_rect)) >>

\* paint(): the four mask rectangles above, below, left and right of r.
mask_rects(r, full_rect) ==
    << RectNew(0, 0, Width(full_rect), r.y0),
       RectNew(0, r.y1, Width(full_rect), Height(full_rect)),
       RectNew(0, r.y0, r.x0, r.y1),
       RectNew(r.x1, r.y0, Width(full_rect), r.y1) >>

\* paint(), the selection and mask part: four masks and a border around the
\* rectangle to draw, or one dim fill of the whole frame.  (The background
\* image drawn first is the same in every state and is left out.)
paint_overlay(sel, selecting, start, current, full_rect) ==
    LET to_draw == selection_to_draw(sel, selecting, start, current)
    IN  IF to_draw # None
        THEN [painted |-> TRUE, hint |-> None,
              masks |-> mask_rects(to_draw[1], full_rect),
              border |-> Some(to_draw[1])]
        ELSE [painted |-> TRUE, hint |-> Some(full_rect),
              masks |-> <<>>, border |-> None]

\* ScreenshotWidget::paint
Paint ==
    /\ ~quit_app
    /\ drawn' = paint_overlay(selection_rect, is_selecting, start_pos,
                              current_pos, screen_rect(screenshot))
    /\ UNCHANGED <<screenshot, is_selecting, start_pos, current_pos,
                   selection_rect, previous_rect, event, paint_req, menu_at,
                   quit_app, discarded, dialog, ext_failed, call, poll_vars>>

\* ---------------------------------------------------------------- menu
\* Largest number of codes the QR decoder reports for one image.
MaxCodes == 2

\* `as u32` on a whole-valued f64: a negative value saturates to 0.  (The
\* upper saturation at 2^32 - 1 is far above every coordinate used here.)
AsU32(v) == IF v < 0 THEN 0 ELSE v

\* The captured image: pixel (x, y) carries the value y * width + x.
SourcePixel(shot, x, y) == y * shot.w + x

\* DynamicImage::crop_imm: the window is clamped to the image, then copied.
CropImm(shot, x, y, w, h) ==
    LET cx == Min(x, shot.w)
        cy == Min(y, shot.h)
        cw == Min(w, shot.w - cx)
        ch == Min(h, shot.h - cy)
    IN  [w |-> cw, h |-> ch,
         pix |-> [c \in (0..(cw - 1)) \X (0..(ch - 1)) |->
                    SourcePixel(shot, cx + c[1], cy + c[2])]]

\* Variant of crop_image that forgets the origin of the rectangle.
crop_image_origin(sel, shot) ==
    IF sel = None THEN None
    ELSE Some(CropImm(shot, 0, 0,
                      AsU32(Width(sel[1])), AsU32(Height(sel[1]))))

\* AppState::crop_image; the screenshot is already Rgba8, so to_rgba8 copies
\* the cropped pixels as they are.
crop_image(sel, shot) ==
    IF sel = None THEN None
    ELSE Some(CropImm(shot, AsU32(Max(sel[1].x0, 0)), AsU32(Max(sel[1].y0, 0)),
                      AsU32(Width(sel[1])), AsU32(Height(sel[1]))))

\* What decoder.decode may return: one Ok("text") or Err per code found.
DecodeResults == UNION {[1..n -> {"text", "err"}] : n \in 0..MaxCodes}

\* qrcode::scan_qr_code: the first Ok of the decoder, errors filtered out;
\* the function itself always returns Ok.
scan_qr_code(results) ==
    LET oks == {i \in 1..Len(results) : results[i] = "text"}
    IN  [err |-> FALSE,
         text |-> IF oks = {} THEN None
                  ELSE Some(results[CHOOSE i \in oks : \A j \in oks : i <= j])]

\* What every menu item leaves alone; the menu closes when an item is chosen.
MenuItemFrame ==
    /\ menu_at' = None
    /\ paint_req' = NoPaint
    /\ drawn' = NoDraw
    /\ UNCHANGED <<screenshot, is_selecting, start_pos, current_pos,
                   selection_rect, previous_rect, discarded, call, poll_vars>>

\* Variant of MenuCopy that drops the selection once it has been copied.
MenuCopy_clear(clip_ok) ==
    /\ ~quit_app /\ menu_at # None
    /\ event' = Ev("menu_copy", PointZero)
    /\ dialog' = None
    /\ IF crop_image(selection_rect, screenshot) # None
       THEN /\ ext_failed' = ~clip_ok
            /\ quit_app' = TRUE
            /\ selection_rect' = None
       ELSE /\ ext_failed' = FALSE
            /\ UNCHANGED <<quit_app, selection_rect>>
    /\ menu_at' = None
    /\ paint_req' = NoPaint
    /\ drawn' = NoDraw
    /\ UNCHANGED <<screenshot, is_selecting, start_pos, current_pos,
                   previous_rect, discarded, call, poll_vars>>

\* Menu item "copy": the clipboard result is discarded with .ok().
MenuCopy(clip_ok) ==
    /\ ~quit_app /\ menu_at # None
    /\ event' = Ev("menu_copy", PointZero)
    /\ dialog' = None
    /\ IF crop_image(selection_rect, screenshot) # None
       THEN /\ ext_failed' = ~clip_ok
            /\ quit_app' = TRUE
       ELSE /\ ext_failed' = FALSE
            /\ UNCHANGED quit_app
    /\ MenuItemFrame

\* Menu item "save as": the file dialog may be cancelled; the save result is
\* discarded with .ok().
MenuSave(path_chosen, save_ok) ==
    /\ ~quit_app /\ menu_at # None
    /\ event' = Ev("menu_save", PointZero)
    /\ dialog' = None
    /\ IF crop_image(selection_rect, screenshot) # None /\ path_chosen
       THEN /\ ext_failed' = ~save_ok
            /\ quit_app' = TRUE
       ELSE /\ ext_failed' = FALSE
            /\ UNCHANGED quit_app
    /\ MenuItemFrame

\* Menu item "scan QR code"
MenuScan(results, clip_ok) ==
    /\ ~quit_app /\ menu_at # None
    /\ event' = Ev("menu_scan", PointZero)
    /\ IF crop_image(selection_rect, screenshot) # None
       THEN LET scanned == scan_qr_code(results)
                decode_err == \E i \in 1..Len(results) : results[i] = "err"
            IN  IF scanned.err
                THEN /\ dialog' = Some("scan_failed")
                     /\ ext_failed' = TRUE
                     /\ UNCHANGED quit_app
                ELSE IF scanned.text # None
                THEN /\ dialog' = None
                     /\ ext_failed' = (decode_err \/ ~clip_ok)
                     /\ quit_app' = TRUE
                ELSE /\ dialog' = Some("no_qr_code")
                     /\ ext_failed' = decode_err
                     /\ UNCHANGED quit_app
       ELSE /\ dialog' = None
            /\ ext_failed' = FALSE
            /\ UNCHANGED quit_app
    /\ MenuItemFrame

\* Menu item "quit"
MenuQuit ==
    /\ ~quit_app /\ menu_at # None
    /\ event' = Ev("menu_quit", PointZero)
    /\ dialog' = None
    /\ ext_failed' = FALSE
    /\ quit_app' = TRUE
    /\ MenuItemFrame

\* The four AppState fields of the selection.
Selection == [is_selecting |-> is_selecting, start_pos |-> start_pos,
              current_pos |-> current_pos, selection_rect |-> selection_rect]

\* The event match of ScreenshotWidget::event with previous_rect and every
\* ctx request left out: the AppState after event e, from AppState s alone.
SelectionStep(s, e, shot) ==
    CASE e.kind = "down_left" ->
           [is_selecting |-> TRUE, start_pos |-> e.pos, current_pos |-> e.pos,
            selection_rect |-> None]
      [] e.kind = "move" /\ s.is_selecting ->
           [s EXCEPT !.current_pos = e.pos]
      [] e.kind = "up_left" /\ s.is_selecting ->
           LET selection == get_current_selection(s.start_pos, s.current_pos)
           IN  [s EXCEPT !.is_selecting = FALSE,
                         !.selection_rect = IF IsValidSelection(selection)
                                            THEN Some(selection) ELSE None]
      [] e.kind = "down_right" /\ s.selection_rect = None ->
           [s EXCEPT !.selection_rect = Some(screen_rect(shot))]
      [] OTHER -> s


Next ==
    \/ \E p \in Points : MouseDownLeft(p)
    \/ \E p \in Points : MouseMove(p)
    \/ \E p \in Points : MouseUpLeft(p)
    \/ \E p \in Points : MouseDownRight(p)
    \/ KeyDownEscape
    \/ Paint
    \/ \E ok \in BOOLEAN : MenuCopy(ok)
    \/ \E path_chosen \in BOOLEAN, ok \in BOOLEAN : MenuSave(path_chosen, ok)
    \/ \E results \in DecodeResults, ok \in BOOLEAN : MenuScan(results, ok)
    \/ MenuQuit

Spec == Init /\ [][Next]_vars

\* ---------------------------------------------------------------- pure functions
\* Direct applications of the geometry, mask and crop functions to inputs
\* drawn from the bounded coordinate sets.
Rects == {r \in [x0 : Xs, y0 : Ys, x1 : Xs, y1 : Ys] : r.x0 <= r.x1 /\ r.y0 <= r.y1}

Frames == [w : 1..MaxW, h : 1..MaxH]

PureFrame ==
    UNCHANGED <<screenshot, is_selecting, start_pos, current_pos,
                selection_rect, previous_rect, event, paint_req, menu_at,
                quit_app, discarded, drawn, dialog, ext_failed, poll_vars>>

CallNormalize(p0, p1) ==
    /\ call' = [fn |-> "normalize", p0 |-> p0, p1 |-> p1,
                ret |-> get_current_selection(p0, p1),
                swapped |-> get_current_selection(p1, p0)]
    /\ PureFrame

CallMaskRects(r, frame) ==
    /\ call' = [fn |-> "mask_rects", r |-> r, frame |-> frame,
                ret |-> mask_rects(r, screen_rect(frame))]
    /\ PureFrame

CallCrop(r) ==
    /\ call' = [fn |-> "crop", r |-> r, src |-> screenshot,
                ret |-> crop_image(Some(r), screenshot)]
    /\ PureFrame

NextPure ==
    \/ \E p0 \in Points, p1 \in Points : CallNormalize(p0, p1)
    \/ \E r \in Rects, frame \in Frames : CallMaskRects(r, frame)
    \/ \E r \in Rects : CallCrop(r)

SpecPure == Init /\ [][NextPure]_vars

\* ---------------------------------------------------------------- polled selection
\* src/src/selection.rs: Selection::update, called once per frame with the
\* state of the left button and the pointer position the window reports.

\* `as usize` on a whole-valued f32: a negative value saturates to 0.
AsUsize(v) == IF v < 0 THEN 0 ELSE v

\* Variant of made_rect without the minimum size of 1.
made_rect_raw(s, e) ==
    LET x0 == Min(s.x, e.x)
        y0 == Min(s.y, e.y)
    IN  [x |-> x0, y |-> y0, w |-> Max(s.x, e.x) - x0, h |-> Max(s.y, e.y) - y0]

\* The rectangle stored in `made` when the button is released.
made_rect(s, e) ==
    LET x0 == Min(s.x, e.x)
        y0 == Min(s.y, e.y)
        w == Max(s.x, e.x) - x0
        h == Max(s.y, e.y) - y0
    IN  [x |-> x0, y |-> y0, w |-> Max(w, 1), h |-> Max(h, 1)]

\* What window.get_mouse_pos(MouseMode::Clamp) may return.
MousePositions == {None} \cup {Some(p) : p \in Points}

WidgetFrame ==
    UNCHANGED <<screenshot, is_selecting, start_pos, current_pos,
                selection_rect, previous_rect, event, paint_req, menu_at,
                quit_app, discarded, drawn, dialog, ext_failed, call>>

\* Selection::update
Update(down, mouse_pos) ==
    /\ polled' = [down |-> down, pos |-> mouse_pos]
    /\ IF down
       THEN LET cleared == sel_made # None
                start0 == IF cleared THEN None ELSE sel_start
                end0 == IF cleared THEN None ELSE sel_end
            IN  /\ sel_made' = None
                /\ IF mouse_pos # None
                   THEN LET xy == [x |-> AsUsize(mouse_pos[1].x),
                                   y |-> AsUsize(mouse_pos[1].y)]
                        IN  /\ sel_start' = IF start0 = None THEN Some(xy) ELSE start0
                            /\ sel_end' = Some(xy)
                   ELSE /\ sel_start' = start0
                        /\ sel_end' = end0
       ELSE IF sel_start # None /\ sel_end # None /\ sel_made = None
            THEN /\ sel_made' = Some(made_rect(sel_start[1], sel_end[1]))
                 /\ UNCHANGED <<sel_start, sel_end>>
            ELSE UNCHANGED <<sel_start, sel_end, sel_made>>
    /\ WidgetFrame

NextPoll == \E down \in BOOLEAN, mouse_pos \in MousePositions : Update(down, mouse_pos)

SpecPoll == Init /\ [][NextPoll]_vars

\* ---------------------------------------------------------------- properties
\* The rectangle the specification calls normalize(p0, p1), as corners.
Normalize(p0, p1) ==
    [x0 |-> Min(p0.x, p1.x), y0 |-> Min(p0.y, p1.y),
     x1 |-> Min(p0.x, p1.x) + (IF p1.x >= p0.x THEN p1.x - p0.x ELSE p0.x - p1.x),
     y1 |-> Min(p0.y, p1.y) + (IF p1.y >= p0.y THEN p1.y - p0.y ELSE p0.y - p1.y)]

ExceedsOne(r) == (r.x1 - r.x0) > 1 /\ (r.y1 - r.y0) > 1

FullFrame == [x0 |-> 0, y0 |-> 0, x1 |-> screenshot.w, y1 |-> screenshot.h]

InsideImage(r) ==
    /\ 0 <= r.x0 /\ r.x0 <= r.x1 /\ r.x1 <= screenshot.w
    /\ 0 <= r.y0 /\ r.y0 <= r.y1 /\ r.y1 <= screenshot.h

\* C1 (as stated): a release at p during a drag commits exactly when
\* normalize(start, p), p being the release point, exceeds 1 in both
\* dimensions; otherwise the machine is idle with no rectangle.
C1_ReleasePointDecides ==
    [][(is_selecting /\ event'.kind = "up_left") =>
         /\ ~is_selecting'
         /\ (selection_rect' # None) <=> ExceedsOne(Normalize(start_pos, event'.pos))]_vars

\* C1 (amended): a release during a drag commits exactly when
\* normalize(start, current), current being the last pointer-move position
\* (the press position when there was no move), exceeds 1 in both
\* dimensions, and then stores that rectangle; otherwise the machine is idle
\* with no rectangle.  The release point does not enter the decision.
C1_CurrentPosDecides ==
    [][(is_selecting /\ event'.kind = "up_left") =>
         /\ ~is_selecting'
         /\ IF ExceedsOne(Normalize(start_pos, current_pos))
            THEN selection_rect' = Some(Normalize(start_pos, current_pos))
            ELSE selection_rect' = None]_vars

\* A drag was committed by a release away from the last move position.
C1_Witness ==
    /\ event.kind = "up_left" /\ menu_at # None
    /\ ~is_selecting /\ selection_rect # None
    /\ event.pos # current_pos
    /\ ~ExceedsOne(Normalize(start_pos, event.pos))

\* C2: every rectangle committed by a drag lies inside the image,
\* [0, image_w] x [0, image_h].
C2_CommittedInsideImage ==
    (event.kind = "up_left" /\ menu_at # None /\ selection_rect # None)
        => InsideImage(selection_rect[1])

\* C3: a drag in progress and a committed rectangle never coexist.
C3_ExactlyOneState == ~(is_selecting /\ selection_rect # None)

\* C4: a left press taken while no drag is in progress yields a drag with
\* start = current = p and no committed rectangle.
C4_PressStartsFresh ==
    [][(~is_selecting /\ event'.kind = "down_left") =>
         /\ is_selecting'
         /\ start_pos' = event'.pos
         /\ current_pos' = event'.pos
         /\ selection_rect' = None]_vars

\* A press that superseded a committed rectangle.
C4_Witness ==
    /\ event.kind = "down_left" /\ discarded
    /\ is_selecting /\ selection_rect = None
    /\ start_pos = event.pos /\ current_pos = event.pos

\* C5: once a press has discarded a committed rectangle, escape leaves the
\* committed rectangle as it is, a release of a drag not exceeding 1 in both
\* dimensions leaves none, and a committed rectangle appears only by a
\* successful commit or by the whole-image shortcut.
C5_NoResurrection ==
    [][/\ (event'.kind = "escape") => (selection_rect' = selection_rect)
       /\ (event'.kind = "up_left" /\ is_selecting
             /\ ~ExceedsOne(Normalize(start_pos, current_pos)))
            => (selection_rect' = None)
       /\ (selection_rect = None /\ selection_rect' # None) =>
            \/ /\ event'.kind = "up_left" /\ is_selecting
               /\ ExceedsOne(Normalize(start_pos, current_pos))
               /\ selection_rect' = Some(Normalize(start_pos, current_pos))
            \/ /\ event'.kind = "down_right"
               /\ selection_rect' = Some(FullFrame)]_vars

\* A re-drag after a commit was released below the threshold.
C5_Witness ==
    /\ event.kind = "up_left" /\ paint_req = PaintAll
    /\ discarded /\ ~is_selecting /\ selection_rect = None

\* C6: a pointer move without a drag in progress, or with a committed
\* rectangle present, changes nothing and requests no repaint.
C6_MoveIsNoOp ==
    [][(event'.kind = "move" /\ (~is_selecting \/ selection_rect # None)) =>
         /\ UNCHANGED <<is_selecting, start_pos, current_pos, selection_rect,
                        previous_rect>>
         /\ paint_req' = NoPaint]_vars

\* C7: a right press without a committed rectangle commits exactly the full
\* frame, whatever its size.
C7_WholeImage ==
    [][(event'.kind = "down_right" /\ selection_rect = None) =>
         selection_rect' = Some(FullFrame)]_vars

\* The shortcut committed a frame that a drag validation would reject,
\* during a drag.
C7_Witness ==
    /\ event.kind = "down_right" /\ paint_req = PaintAll
    /\ selection_rect = Some(FullFrame)
    /\ ~ExceedsOne(FullFrame)
    /\ is_selecting

\* C8: whenever the menu is shown a committed rectangle exists and the
\* handler was a release or a right press; a rejected release shows none.
C8_MenuNeedsRect ==
    /\ (menu_at # None) =>
          (selection_rect # None /\ event.kind \in {"up_left", "down_right"})
    /\ (event.kind = "up_left" /\ selection_rect = None) => (menu_at = None)

\* The menu shown by a successful commit.
C8_Witness ==
    /\ event.kind = "up_left" /\ menu_at = Some(event.pos)
    /\ selection_rect = Some(Normalize(start_pos, current_pos))

\* C9: after every event the selection state is the one reached by the
\* machine that keeps no previous_rect and requests no dirty region.
C9_DirtyBookkeepingIsInert ==
    [][Selection' = SelectionStep(Selection, event', screenshot)]_vars

\* A move during a drag that used the cached rectangle and requested a
\* dirty region.
C9_Witness ==
    /\ event.kind = "move" /\ is_selecting
    /\ paint_req.rect # None
    /\ previous_rect = Some(Normalize(start_pos, current_pos))
    /\ start_pos # current_pos

\* C10: the dirty region of a move during a drag contains the previous and
\* the new drag rectangle with a margin of at least 2 on every side.
C10_DirtyOutset ==
    [][(is_selecting /\ event'.kind = "move") =>
         LET old == Normalize(start_pos, current_pos)
             new == Normalize(start_pos, event'.pos)
         IN  /\ paint_req'.rect # None
             /\ paint_req'.rect[1].x0 <= Min(old.x0, new.x0) - 2
             /\ paint_req'.rect[1].y0 <= Min(old.y0, new.y0) - 2
             /\ paint_req'.rect[1].x1 >= Max(old.x1, new.x1) + 2
             /\ paint_req'.rect[1].y1 >= Max(old.y1, new.y1) + 2]_vars

\* C11: escape in any state submits the quit command and leaves the drag
\* flag, start, current and the committed rectangle as they were.
C11_EscapeQuitsOnly ==
    [][(event'.kind = "escape") =>
         /\ quit_app'
         /\ UNCHANGED <<is_selecting, start_pos, current_pos, selection_rect>>]_vars

\* Escape was pressed in the middle of a drag.
C11_Witness ==
    /\ event.kind = "escape" /\ quit_app
    /\ is_selecting /\ start_pos # current_pos

MenuKinds == {"menu_copy", "menu_save", "menu_scan", "menu_quit"}

\* C12: every failure of an external action is reported to the user by a
\* visible notification.
C12_FailuresReported == ext_failed => (dialog # None)

\* C13: no menu action changes the drag flag, start, current or the
\* committed rectangle, whatever its external calls return.
C13_MenuLeavesSelection ==
    [][(event'.kind \in MenuKinds) =>
         UNCHANGED <<is_selecting, start_pos, current_pos, selection_rect>>]_vars

\* The copy item ran on a committed rectangle and its clipboard call failed.
C13_Witness ==
    /\ event.kind = "menu_copy" /\ ext_failed /\ quit_app
    /\ selection_rect # None

\* C14: every committed rectangle has width > 0 and height > 0, so no
\* action handler crops a zero-area rectangle.
C14_NoZeroAreaRect ==
    (selection_rect # None) =>
        /\ selection_rect[1].x1 - selection_rect[1].x0 > 0
        /\ selection_rect[1].y1 - selection_rect[1].y0 > 0

\* The save item cropped a committed rectangle and wrote the file.
C14_Witness ==
    /\ event.kind = "menu_save" /\ quit_app /\ ~ext_failed
    /\ selection_rect # None

Area(r) == (r.x1 - r.x0) * (r.y1 - r.y0)

Overlap(a, b) ==
    /\ Max(a.x0, b.x0) < Min(a.x1, b.x1)
    /\ Max(a.y0, b.y0) < Min(a.y1, b.y1)

Within(r, w, h) ==
    /\ 0 <= r.x0 /\ r.x0 <= r.x1 /\ r.x1 <= w
    /\ 0 <= r.y0 /\ r.y0 <= r.y1 /\ r.y1 <= h

\* C15: for a selection S inside the frame F, the four mask rectangles lie
\* in F, overlap neither each other nor S, and their areas and the area of S
\* add up to the area of F.
C15_MasksTile ==
    (call.fn = "mask_rects" /\ Within(call.r, call.frame.w, call.frame.h)) =>
        LET m == call.ret
            parts == <<m[1], m[2], m[3], m[4], call.r>>
        IN  /\ Len(m) = 4
            /\ \A i \in 1..4 : Within(m[i], call.frame.w, call.frame.h)
            /\ \A i \in 1..5 : \A j \in 1..5 :
                 (i # j) => ~Overlap(parts[i], parts[j])
            /\ Area(m[1]) + Area(m[2]) + Area(m[3]) + Area(m[4]) + Area(call.r)
                 = call.frame.w * call.frame.h

\* Masks around a selection that is smaller than the frame and not empty.
C15_Witness ==
    /\ call.fn = "mask_rects"
    /\ Within(call.r, call.frame.w, call.frame.h)
    /\ Area(call.r) > 0
    /\ Area(call.ret[3]) > 0 /\ Area(call.ret[1]) > 0

\* C16: cropping a rectangle {x, y, w, h} that lies inside the source gives
\* a buffer of exactly w x h pixels whose pixel (i, j) is source pixel
\* (x + i, y + j), and the source is unchanged.
C16_CropRoundTrip ==
    (call.fn = "crop" /\ Within(call.r, call.src.w, call.src.h)) =>
        /\ call.ret # None
        /\ call.ret[1].w = call.r.x1 - call.r.x0
        /\ call.ret[1].h = call.r.y1 - call.r.y0
        /\ \A i \in 0..(call.r.x1 - call.r.x0 - 1) :
             \A j \in 0..(call.r.y1 - call.r.y0 - 1) :
               call.ret[1].pix[<<i, j>>]
                 = SourcePixel(call.src, call.r.x0 + i, call.r.y0 + j)
        /\ screenshot = call.src

\* A crop of a non-empty rectangle that does not start at the origin.
C16_Witness ==
    /\ call.fn = "crop" /\ Within(call.r, call.src.w, call.src.h)
    /\ call.r.x0 > 0 /\ call.r.y0 > 0
    /\ call.ret[1].w > 0 /\ call.ret[1].h > 0

\* C17: the drag rectangle of p0 and p1 has its corner at the minimum of
\* each coordinate, width |p1.x - p0.x| >= 0 and height |p1.y - p0.y| >= 0,
\* and is the same for (p1, p0).
C17_Normalize ==
    (call.fn = "normalize") =>
        LET dx == IF call.p1.x >= call.p0.x THEN call.p1.x - call.p0.x
                  ELSE call.p0.x - call.p1.x
            dy == IF call.p1.y >= call.p0.y THEN call.p1.y - call.p0.y
                  ELSE call.p0.y - call.p1.y
        IN  /\ call.ret.x0 = Min(call.p0.x, call.p1.x)
            /\ call.ret.y0 = Min(call.p0.y, call.p1.y)
            /\ call.ret.x1 - call.ret.x0 = dx /\ dx >= 0
            /\ call.ret.y1 - call.ret.y0 = dy /\ dy >= 0
            /\ call.ret = call.swapped

\* Points given in the order right-to-left and top-to-bottom.
C17_Witness ==
    /\ call.fn = "normalize"
    /\ call.p0.x > call.p1.x /\ call.p0.y < call.p1.y

\* C18: while a drag is in progress the cached previous rectangle is the
\* current drag rectangle normalize(start, current).
C18_PreviousRectIsCurrent ==
    is_selecting => (previous_rect = Some(Normalize(start_pos, current_pos)))

\* A move in a second drag, started after an earlier selection.
C18_Witness ==
    /\ is_selecting /\ discarded /\ event.kind = "move"
    /\ start_pos # current_pos
    /\ previous_rect = Some(Normalize(start_pos, current_pos))

\* C19: paint draws the single full-frame dim exactly when there is neither
\* a committed rectangle nor a drag; otherwise it draws four masks and the
\* border around the committed rectangle, or without one around the live
\* drag rectangle.
C19_OverlayChoice ==
    drawn.painted =>
        IF selection_rect = None /\ ~is_selecting
        THEN /\ drawn.hint = Some(FullFrame)
             /\ drawn.masks = <<>> /\ drawn.border = None
        ELSE LET r == IF selection_rect # None THEN selection_rect[1]
                      ELSE Normalize(start_pos, current_pos)
             IN  /\ drawn.hint = None
                 /\ drawn.border = Some(r)
                 /\ Len(drawn.masks) = 4
                 /\ drawn.masks[1].y1 = r.y0 /\ drawn.masks[2].y0 = r.y1
                 /\ drawn.masks[3].x1 = r.x0 /\ drawn.masks[4].x0 = r.x1

\* The live drag rectangle was painted.
C19_Witness ==
    /\ drawn.painted /\ is_selecting /\ selection_rect = None
    /\ start_pos # current_pos
    /\ drawn.border = Some(Normalize(start_pos, current_pos))

\* C20: a right press with a committed rectangle present changes no
\* selection field and only shows the menu; a left release without a drag in
\* progress changes nothing and shows no menu.
C20_NoOpArms ==
    [][(~drawn'.painted) =>
         /\ (event'.kind = "down_right" /\ selection_rect # None) =>
              /\ UNCHANGED <<is_selecting, start_pos, current_pos, selection_rect>>
              /\ menu_at' = Some(event'.pos)
              /\ paint_req' = NoPaint
         /\ (event'.kind = "up_left" /\ ~is_selecting) =>
              /\ UNCHANGED <<is_selecting, start_pos, current_pos,
                             selection_rect, previous_rect>>
              /\ menu_at' = None
              /\ paint_req' = NoPaint]_vars

\* A left release after the whole-image shortcut, with no drag in progress.
C20_Witness ==
    /\ event.kind = "up_left" /\ paint_req = NoPaint /\ menu_at = None
    /\ ~is_selecting /\ selection_rect = Some(FullFrame)

\* The min-corner, absolute-difference rectangle of two points, each size
\* at least 1.
PollRect(s, e) ==
    [x |-> IF s.x <= e.x THEN s.x ELSE e.x,
     y |-> IF s.y <= e.y THEN s.y ELSE e.y,
     w |-> IF s.x = e.x THEN 1 ELSE IF s.x < e.x THEN e.x - s.x ELSE s.x - e.x,
     h |-> IF s.y = e.y THEN 1 ELSE IF s.y < e.y THEN e.y - s.y ELSE s.y - e.y]

\* C21: in the frame-polled variant `made` becomes set only on a button-up
\* frame after a press, is then the min-corner, absolute-difference
\* rectangle of start and end with w >= 1 and h >= 1, is left alone with
\* start and end by every later button-up frame, and is cleared with start
\* and end by the next button-down frame, which starts a new selection at
\* the reported position.
C21_PolledSelection ==
    [][/\ (sel_made = None /\ sel_made' # None) =>
            /\ ~polled'.down
            /\ sel_start # None /\ sel_end # None
            /\ UNCHANGED <<sel_start, sel_end>>
       /\ (sel_made' # None) =>
            /\ sel_start' # None /\ sel_end' # None
            /\ sel_made' = Some(PollRect(sel_start'[1], sel_end'[1]))
            /\ sel_made'[1].w >= 1 /\ sel_made'[1].h >= 1
       /\ (sel_made # None /\ ~polled'.down) =>
            UNCHANGED <<sel_start, sel_end, sel_made>>
       /\ (sel_made # None /\ polled'.down) =>
            /\ sel_made' = None
            /\ sel_start' = sel_end'
            /\ (polled'.pos = None) => (sel_start' = None)
            /\ (polled'.pos # None) =>
                 sel_start' = Some([x |-> Max(polled'.pos[1].x, 0),
                                    y |-> Max(polled'.pos[1].y, 0)])]_vars

\* A click without movement was released: the stored size is 1 by 1.
C21_Witness ==
    /\ ~polled.down /\ sel_made # None
    /\ sel_start = sel_end
    /\ sel_made[1].w = 1 /\ sel_made[1].h = 1

====
